---- MODULE Spec2Model ----
(***************************************************************************)
(* Model of HW_OOP_6.py: BankAccount (balance setter, transfer, the two    *)
(* credential checks), CreditCardPayment.process, PayPalPayment.process    *)
(* and the batch loop of main().                                           *)
(*                                                                         *)
(* Amounts and balances are integers (whole currency units); strings are   *)
(* sequences of one-character strings.  Python's None is the value None    *)
(* below.  A call that raises is recorded with result "KeyError" or        *)
(* "ValueError".                                                           *)
(***************************************************************************)
EXTENDS Integers, Sequences, FiniteSets, TLC

VARIABLES accounts, last, payments, pc, idx, outcomes, start

vars == <<accounts, last, payments, pc, idx, outcomes, start>>

(***************************************************************************)
(* Bounds of the model.                                                    *)
(***************************************************************************)
\* initial balances and assigned balances range over -1 .. MaxBalance, and no
\* call is explored that would leave an account holding more than MaxBalance
MaxBalance == 2
\* amounts of transfers and payments range over -1 .. MaxAmount
MaxAmount == 2
\* the driver's generated batches have at most MaxBatch payments
MaxBatch == 2

(***************************************************************************)
(* Values.                                                                 *)
(***************************************************************************)
\* Python's None (a stored email may be absent); no string equals it
None == <<"<None>">>

\* identifiers used as keys of the account mapping
Ids == {"A001", "A002", "A003"}

\* an identifier that is never a key of the mapping
Unknown == "A404"

AllIds == Ids \cup {Unknown}

Balances == -1 .. MaxBalance

Amounts == -1 .. MaxAmount

\* the credentials an account is constructed with
Credentials ==
    {[credit_card_number |-> <<"1", "a">>, paypal_email |-> <<"u", "1">>],
     [credit_card_number |-> <<"1", "A">>, paypal_email |-> None]}

PresentedCards == {<<"1", "a">>, <<"1", "A">>}

PresentedEmails == {<<>>, <<"u", "1">>, <<"U", "1">>, <<"u", "2">>}

(***************************************************************************)
(* str.lower(), character by character.                                    *)
(***************************************************************************)
LowerChar(c) ==
    CASE c = "A" -> "a"
      [] c = "U" -> "u"
      [] OTHER -> c

Lower(s) == [i \in 1 .. Len(s) |-> LowerChar(s[i])]

\* Python's `x or ""`: None and the empty string are falsy
OrEmpty(s) == IF s = None \/ s = <<>> THEN <<>> ELSE s

(***************************************************************************)
(* BankAccount                                                             *)
(***************************************************************************)
BankAccount(id, balance, credit_card_number, paypal_email) ==
    [id |-> id, balance |-> balance,
     credit_card_number |-> credit_card_number,
     paypal_email |-> paypal_email]

\* a variant that compares the card number without regard to case
verify_credit_card_nocase(acc, card_number) ==
    Lower(card_number) = Lower(acc.credit_card_number)

verify_credit_card(acc, card_number) == card_number = acc.credit_card_number

verify_paypal_email(acc, email) == Lower(email) = Lower(OrEmpty(acc.paypal_email))

\* the balance setter: the mapping after `accts[id].balance = value`,
\* and whether the assignment raised
\* a variant that also refuses a balance of zero
SetterRefusesZero(value) == value <= 0

SetterRaises(value) == value < 0

SetterEffect(accts, id, value) ==
    IF SetterRaises(value) THEN accts
    ELSE [accts EXCEPT ![id].balance = value]

\* transfer(amount, to_account) called on accts[s] with to_account = accts[d]:
\* the two assignments are applied one after the other on the shared objects
\* a variant that forgets the withdrawal
WithdrawSkipped(accts, s, amount) == accts

Withdraw(accts, s, amount) == [accts EXCEPT ![s].balance = @ - amount]

Deposit(accts, d, amount) == [accts EXCEPT ![d].balance = @ + amount]

\* a variant that lets an amount of zero through
RejectsOnlyNegative(amount) == amount < 0

TransferRejectsAmount(amount) == amount <= 0

\* a variant that refuses to empty the account
InsufficientOrEqual(accts, s, amount) == accts[s].balance <= amount

TransferInsufficient(accts, s, amount) == accts[s].balance < amount

\* a variant that computes both new balances from the balances at the call
TransferFromSnapshot(accts, s, d, amount) ==
    IF TransferRejectsAmount(amount)
    THEN [ok |-> FALSE, accts |-> accts, out |-> <<>>]
    ELSE IF TransferInsufficient(accts, s, amount)
    THEN [ok |-> FALSE, accts |-> accts, out |-> <<"Insufficient funds">>]
    ELSE [ok |-> TRUE,
          accts |-> [accts EXCEPT ![s].balance = accts[s].balance - amount,
                                  ![d].balance = accts[d].balance + amount],
          out |-> <<>>]

Transfer(accts, s, d, amount) ==
    IF TransferRejectsAmount(amount)
    THEN [ok |-> FALSE, accts |-> accts, out |-> <<>>]
    ELSE IF TransferInsufficient(accts, s, amount)
    THEN [ok |-> FALSE, accts |-> accts, out |-> <<"Insufficient funds">>]
    ELSE [ok |-> TRUE,
          accts |-> Deposit(Withdraw(accts, s, amount), d, amount),
          out |-> <<>>]

(***************************************************************************)
(* Payment, CreditCardPayment, PayPalPayment                               *)
(***************************************************************************)
CreditCardPayment(amount, from, to, card_number) ==
    [kind |-> "card", amount |-> amount, from_account_id |-> from,
     to_account_id |-> to, cred |-> card_number]

PayPalPayment(amount, from, to, email) ==
    [kind |-> "paypal", amount |-> amount, from_account_id |-> from,
     to_account_id |-> to, cred |-> email]

\* accounts[self.from_account_id], accounts[self.to_account_id]
LookupFails(accts, p) ==
    p.from_account_id \notin DOMAIN accts \/ p.to_account_id \notin DOMAIN accts

Verifies(accts, p) ==
    IF p.kind = "card"
    THEN verify_credit_card(accts[p.from_account_id], p.cred)
    ELSE verify_paypal_email(accts[p.from_account_id], p.cred)

VerifyName(p) ==
    IF p.kind = "card" THEN "verify_credit_card" ELSE "verify_paypal_email"

InvalidMessage(p) ==
    IF p.kind = "card" THEN "Error: invalid credit card number"
    ELSE "Error: invalid PayPal-email"

\* a variant that reports success whenever the credential verified
ProcessReturnsTrue(accts, p) ==
    IF LookupFails(accts, p)
    THEN [result |-> "KeyError", accts |-> accts, out |-> <<>>, invoked |-> <<>>]
    ELSE IF ~Verifies(accts, p)
    THEN [result |-> "False", accts |-> accts, out |-> <<InvalidMessage(p)>>,
          invoked |-> <<VerifyName(p)>>]
    ELSE LET t == Transfer(accts, p.from_account_id, p.to_account_id, p.amount)
         IN  [result |-> "True",
              accts |-> t.accts,
              out |-> IF t.ok THEN t.out
                      ELSE Append(t.out, "Error: transfer failed"),
              invoked |-> <<VerifyName(p), "transfer">>]

\* process(accounts): result is "True", "False" or "KeyError"; `invoked` lists
\* the account methods called, `out` the lines printed
Process(accts, p) ==
    IF LookupFails(accts, p)
    THEN [result |-> "KeyError", accts |-> accts, out |-> <<>>, invoked |-> <<>>]
    ELSE IF ~Verifies(accts, p)
    THEN [result |-> "False", accts |-> accts, out |-> <<InvalidMessage(p)>>,
          invoked |-> <<VerifyName(p)>>]
    ELSE LET t == Transfer(accts, p.from_account_id, p.to_account_id, p.amount)
         IN  [result |-> IF t.ok THEN "True" ELSE "False",
              accts |-> t.accts,
              out |-> IF t.ok THEN t.out
                      ELSE Append(t.out, "Error: transfer failed"),
              invoked |-> <<VerifyName(p), "transfer">>]

(***************************************************************************)
(* The record of the call in progress or just finished.  `before` is the   *)
(* mapping when the call started.  When the call is a second process of    *)
(* the payment object processed just before it, `first` holds the mapping  *)
(* before, and the result of, that first call.                             *)
(***************************************************************************)
NoPayment == [kind |-> "-", amount |-> 0, from_account_id |-> "-",
              to_account_id |-> "-", cred |-> <<>>]

NoFirst(before) == [done |-> FALSE, before |-> before, result |-> "None"]

Call(op, p, value, before, result, out, invoked, first) ==
    [op |-> op, p |-> p, value |-> value, before |-> before,
     result |-> result, out |-> out, invoked |-> invoked, first |-> first]

\* the bound on the balances the model explores
WithinBound(accts) == \A i \in DOMAIN accts : accts[i].balance <= MaxBalance

Idle(accts) ==
    Call("idle", NoPayment, 0, accts, "None", <<>>, <<>>, NoFirst(accts))

DriverIdle ==
    /\ payments = <<>>
    /\ pc = "idle"
    /\ idx = 0
    /\ outcomes = <<>>
    /\ start = <<>>

\* the state after the accounts are constructed and put in the mapping
Mappings ==
    {acc \in [Ids -> {BankAccount(i, b, c.credit_card_number, c.paypal_email) :
                         i \in Ids, b \in Balances, c \in Credentials}] :
        \A i \in Ids : acc[i].id = i}

InitAccounts == accounts \in Mappings

Init ==
    /\ InitAccounts
    /\ last = Idle(accounts)
    /\ DriverIdle

\* acc.balance = value
SetBalance ==
    /\ last.op = "idle"
    /\ \E id \in DOMAIN accounts, value \in Balances :
        /\ accounts' = SetterEffect(accounts, id, value)
        /\ WithinBound(accounts')
        /\ last' = Call("set_balance",
                        [NoPayment EXCEPT !.from_account_id = id], value,
                        accounts,
                        IF SetterRaises(value) THEN "ValueError" ELSE "None",
                        <<>>, <<>>, NoFirst(accounts))
    /\ UNCHANGED <<payments, pc, idx, outcomes, start>>

\* accounts[s].transfer(amount, accounts[d])
DoTransfer ==
    /\ last.op = "idle"
    /\ \E s \in DOMAIN accounts, d \in DOMAIN accounts, amount \in Amounts :
        LET t == Transfer(accounts, s, d, amount) IN
        /\ accounts' = t.accts
        /\ WithinBound(accounts')
        /\ last' = Call("transfer",
                        [NoPayment EXCEPT !.from_account_id = s,
                                          !.to_account_id = d,
                                          !.amount = amount],
                        0, accounts,
                        IF t.ok THEN "True" ELSE "False", t.out,
                        <<"transfer">>, NoFirst(accounts))
    /\ UNCHANGED <<payments, pc, idx, outcomes, start>>

\* p.process(accounts)
ProcessCall(p, first) ==
    LET r == Process(accounts, p) IN
    /\ accounts' = r.accts
    /\ WithinBound(accounts')
    /\ last' = Call("process", p, 0, accounts, r.result, r.out, r.invoked, first)

CardPayments ==
    {CreditCardPayment(a, f, t, c) :
        a \in Amounts, f \in AllIds, t \in AllIds, c \in PresentedCards}

PayPalPayments ==
    {PayPalPayment(a, f, t, e) :
        a \in Amounts, f \in AllIds, t \in AllIds, e \in PresentedEmails}

CreditCardProcess ==
    /\ last.op = "idle"
    /\ \E p \in CardPayments : ProcessCall(p, NoFirst(accounts))
    /\ UNCHANGED <<payments, pc, idx, outcomes, start>>

PayPalProcess ==
    /\ last.op = "idle"
    /\ \E p \in PayPalPayments : ProcessCall(p, NoFirst(accounts))
    /\ UNCHANGED <<payments, pc, idx, outcomes, start>>

\* the payment object just processed is processed again
Replay ==
    /\ last.op = "process"
    /\ ~last.first.done
    /\ ProcessCall(last.p, [done |-> TRUE, before |-> last.before,
                            result |-> last.result])
    /\ UNCHANGED <<payments, pc, idx, outcomes, start>>

\* the call returns to its caller, which goes on to its next call
Return ==
    /\ last.op \in {"set_balance", "transfer", "process"}
    /\ pc = "idle"
    /\ last' = Idle(accounts)
    /\ UNCHANGED <<accounts, payments, pc, idx, outcomes, start>>

Next ==
    \/ SetBalance
    \/ DoTransfer
    \/ CreditCardProcess
    \/ PayPalProcess
    \/ Replay
    \/ Return

Spec == Init /\ [][Next]_vars

(***************************************************************************)
(* main(): the mapping, the list of payments and the loop over it.         *)
(***************************************************************************)
MainCard1 == <<"1","2","3","4","5","6","7","8","9","0","1","2","3","4","5","6">>

MainCard2 == <<"1","1","1","1","2","2","2","2","3","3","3","3","4","4","4","4">>

MainEmail1 == <<"u","s","e","r","1","@","e","x","a","m","p","l","e",".","c","o","m">>

MainEmail2 == <<"u","s","e","r","2","@","e","x","a","m","p","l","e",".","c","o","m">>

WrongEmail == <<"w","r","o","n","g","@","e","x","a","m","p","l","e",".","c","o","m">>

MainAccounts ==
    [i \in {"A001", "A002"} |->
        IF i = "A001" THEN BankAccount("A001", 1000, MainCard1, MainEmail1)
        ELSE BankAccount("A002", 500, MainCard2, MainEmail2)]

MainPayments ==
    <<CreditCardPayment(200, "A001", "A002", MainCard1),
      PayPalPayment(300, "A001", "A002", WrongEmail),
      CreditCardPayment(900, "A002", "A001", MainCard2)>>

\* the payments the generated batches are made of
Pool ==
    {CreditCardPayment(1, "A001", "A002", <<"1", "a">>),
     PayPalPayment(1, "A001", "A002", <<"U", "1">>),
     CreditCardPayment(2, "A002", "A001", <<"1", "A">>),
     PayPalPayment(1, "A002", "A003", <<>>),
     CreditCardPayment(0, "A001", "A002", <<"1", "a">>),
     PayPalPayment(1, "A003", "A003", <<"u", "2">>),
     CreditCardPayment(1, "A001", Unknown, <<"1", "A">>),
     PayPalPayment(1, Unknown, "A002", <<"u", "1">>)}

RECURSIVE SeqsUpTo(_, _)
SeqsUpTo(S, n) ==
    IF n = 0 THEN {<<>>}
    ELSE LET shorter == SeqsUpTo(S, n - 1)
         IN  shorter \cup {Append(q, x) : q \in {r \in shorter : Len(r) = n - 1},
                                           x \in S}

Batches == SeqsUpTo(Pool, MaxBatch)

\* the mappings the generated batches run on: any balances, A002 without a
\* stored email, the other accounts with one
DriverMappings ==
    {acc \in Mappings :
        \A i \in Ids : (acc[i].paypal_email = None) <=> (i = "A002")}

DriverInit ==
    /\ \/ accounts = MainAccounts /\ payments = MainPayments
       \/ accounts \in DriverMappings /\ payments \in Batches
    /\ last = Idle(accounts)
    /\ pc = "loop"
    /\ idx = 0
    /\ outcomes = <<>>
    /\ start = accounts

\* a variant of the loop that catches the lookup fault, reports the payment
\* as failed and goes on
DriverStepCatching ==
    /\ pc = "loop"
    /\ idx < Len(payments)
    /\ LET p == payments[idx + 1]
           r == Process(accounts, p)
       IN  /\ accounts' = r.accts
           /\ last' = Call("process", p, 0, accounts, r.result, r.out,
                           r.invoked, NoFirst(accounts))
           /\ idx' = idx + 1
           /\ pc' = pc
           /\ outcomes' =
                 Append(outcomes,
                        [payment |-> p,
                         result |-> IF r.result = "KeyError" THEN "False"
                                    ELSE r.result])
    /\ UNCHANGED <<payments, start>>

\* a variant of the loop that gives up at the first payment that fails
DriverStepStopsOnFailure ==
    /\ pc = "loop"
    /\ idx < Len(payments)
    /\ LET p == payments[idx + 1]
           r == Process(accounts, p)
       IN  /\ accounts' = r.accts
           /\ last' = Call("process", p, 0, accounts, r.result, r.out,
                           r.invoked, NoFirst(accounts))
           /\ idx' = idx + 1
           /\ IF r.result = "KeyError"
              THEN pc' = "crashed" /\ outcomes' = outcomes
              ELSE /\ pc' = IF r.result = "False" THEN "crashed" ELSE pc
                   /\ outcomes' = Append(outcomes,
                                         [payment |-> p, result |-> r.result])
    /\ UNCHANGED <<payments, start>>

\* one iteration of `for payment in payments`: process and print the result;
\* a KeyError raised by process is not caught and ends the program
DriverStep ==
    /\ pc = "loop"
    /\ idx < Len(payments)
    /\ LET p == payments[idx + 1]
           r == Process(accounts, p)
       IN  /\ accounts' = r.accts
           /\ last' = Call("process", p, 0, accounts, r.result, r.out,
                           r.invoked, NoFirst(accounts))
           /\ idx' = idx + 1
           /\ IF r.result = "KeyError"
              THEN pc' = "crashed" /\ outcomes' = outcomes
              ELSE pc' = pc /\
                   outcomes' = Append(outcomes,
                                      [payment |-> p, result |-> r.result])
    /\ UNCHANGED <<payments, start>>

\* the loop is over: the accounts are printed and main returns
DriverFinish ==
    /\ pc = "loop"
    /\ idx = Len(payments)
    /\ pc' = "done"
    /\ UNCHANGED <<accounts, last, payments, idx, outcomes, start>>

DriverNext ==
    \/ DriverStep
    \/ DriverFinish

\* main runs in one thread with nothing to wait for: it keeps taking steps
DriverSpec == DriverInit /\ [][DriverNext]_vars /\ WF_vars(DriverNext)

(***************************************************************************)
(* Vocabulary of the properties.  These definitions state what the         *)
(* specification says; they use none of the operators that model the code. *)
(***************************************************************************)
Sender == last.p.from_account_id

Receiver == last.p.to_account_id

Amount == last.p.amount

Before == last.before

RECURSIVE SumOver(_, _)
SumOver(accts, S) ==
    IF S = {} THEN 0
    ELSE LET i == CHOOSE x \in S : TRUE
         IN  accts[i].balance + SumOver(accts, S \ {i})

Total(accts) == SumOver(accts, DOMAIN accts)

CasePairs == {<<"a", "A">>, <<"u", "U">>}

SameLetter(c, d) == c = d \/ <<c, d>> \in CasePairs \/ <<d, c>> \in CasePairs

EqualIgnoringCase(s, t) ==
    Len(s) = Len(t) /\ \A i \in 1 .. Len(s) : SameLetter(s[i], t[i])

\* an absent stored email counts as the empty string
StoredEmailText(acc) == IF acc.paypal_email = None THEN <<>> ELSE acc.paypal_email

Resolves(accts, p) ==
    p.from_account_id \in DOMAIN accts /\ p.to_account_id \in DOMAIN accts

CredentialMatches(accts, p) ==
    IF p.kind = "card"
    THEN p.cred = accts[p.from_account_id].credit_card_number
    ELSE EqualIgnoringCase(p.cred, StoredEmailText(accts[p.from_account_id]))

Funded(accts, p) ==
    0 < p.amount /\ p.amount <= accts[p.from_account_id].balance

\* the balances a successful payment of p leaves
Settled(accts, p) ==
    [i \in DOMAIN accts |->
        [accts[i] EXCEPT !.balance =
            @ - (IF i = p.from_account_id THEN p.amount ELSE 0)
              + (IF i = p.to_account_id THEN p.amount ELSE 0)]]

SameIdentity(a, b) ==
    /\ DOMAIN a = DOMAIN b
    /\ \A i \in DOMAIN a :
          /\ a[i].id = b[i].id
          /\ a[i].credit_card_number = b[i].credit_card_number
          /\ a[i].paypal_email = b[i].paypal_email

(***************************************************************************)
(* C1                                                                      *)
(***************************************************************************)
\* C1: in every reachable state every account's balance is >= 0, whatever
\* initial balance the account was constructed with.
C1_BalanceNeverNegative ==
    \A i \in DOMAIN accounts : accounts[i].balance >= 0

(***************************************************************************)
(* C2                                                                      *)
(***************************************************************************)
ValidTransferDone ==
    /\ last.op = "transfer"
    /\ 0 < Amount
    /\ Amount <= Before[Sender].balance

\* C2 as stated: for every valid transfer, for every choice of sender and
\* destination (the same account included), transfer returns true, the sender
\* ends exactly a lower, the destination exactly a higher, and the sum of the
\* two balances is unchanged.
C2_AsStated ==
    ValidTransferDone =>
        /\ last.result = "True"
        /\ accounts[Sender].balance = Before[Sender].balance - Amount
        /\ accounts[Receiver].balance = Before[Receiver].balance + Amount
        /\ accounts[Sender].balance + accounts[Receiver].balance
             = Before[Sender].balance + Before[Receiver].balance

\* C2 amended: every valid transfer returns true and keeps the sum of the two
\* balances; between two distinct accounts the sender ends exactly a lower and
\* the destination exactly a higher; a transfer of an account to itself leaves
\* its balance unchanged.
C2_ValidTransfer ==
    ValidTransferDone =>
        /\ last.result = "True"
        /\ accounts[Sender].balance + accounts[Receiver].balance
             = Before[Sender].balance + Before[Receiver].balance
        /\ Sender # Receiver =>
              /\ accounts[Sender].balance = Before[Sender].balance - Amount
              /\ accounts[Receiver].balance = Before[Receiver].balance + Amount
        /\ Sender = Receiver =>
              accounts[Sender].balance = Before[Sender].balance

C2_Witness ==
    /\ ValidTransferDone
    /\ Sender # Receiver
    /\ last.result = "True"
    /\ accounts[Receiver].balance = Before[Receiver].balance + Amount

(***************************************************************************)
(* C3                                                                      *)
(***************************************************************************)
RejectedTransferDone ==
    /\ last.op = "transfer"
    /\ (Amount <= 0 \/ Amount > Before[Sender].balance)

\* C3: a transfer with a <= 0 or a > sender.balance returns false and leaves
\* every account exactly as it was.
C3_RejectedTransfer ==
    RejectedTransferDone => last.result = "False" /\ accounts = Before

C3_Witness ==
    /\ RejectedTransferDone
    /\ Amount > 0
    /\ Before[Sender].balance >= 0
    /\ last.result = "False"

(***************************************************************************)
(* C4                                                                      *)
(***************************************************************************)
MismatchedProcessDone ==
    /\ last.op = "process"
    /\ Resolves(Before, last.p)
    /\ ~CredentialMatches(Before, last.p)

\* C4: when the presented card number differs from the sender's stored one, or
\* the presented email differs from the stored one even ignoring case, process
\* returns false, never invokes transfer and changes no balance, whatever the
\* funds.
C4_MismatchBlocks ==
    MismatchedProcessDone =>
        /\ last.result = "False"
        /\ \A k \in 1 .. Len(last.invoked) : last.invoked[k] # "transfer"
        /\ accounts = Before

C4_Witness ==
    /\ MismatchedProcessDone
    /\ Funded(Before, last.p)
    /\ last.p.kind = "card"
    /\ EqualIgnoringCase(last.p.cred, Before[Sender].credit_card_number)
    /\ last.result = "False"

(***************************************************************************)
(* C5                                                                      *)
(***************************************************************************)
\* C5: assigning a value < 0 to a balance fails with a validation error and
\* keeps the balance; assigning a value >= 0 (0 included) makes the balance
\* that value; nothing else changes.
C5_BalanceSetter ==
    last.op = "set_balance" =>
        /\ last.value < 0 => last.result = "ValueError" /\ accounts = Before
        /\ last.value >= 0 =>
              /\ last.result = "None"
              /\ accounts = [Before EXCEPT ![Sender].balance = last.value]

C5_Witness ==
    /\ last.op = "set_balance"
    /\ last.value < 0
    /\ Before[Sender].balance > 0
    /\ last.result = "ValueError"

(***************************************************************************)
(* C6                                                                      *)
(***************************************************************************)
ReplayDone ==
    /\ last.op = "process"
    /\ last.first.done
    /\ Resolves(last.first.before, last.p)
    /\ Sender # Receiver
    /\ CredentialMatches(last.first.before, last.p)
    /\ 0 < Amount
    /\ last.first.before[Sender].balance >= 2 * Amount

\* C6: processing the same payment object twice in a row (matching credential,
\* distinct accounts, sender balance >= 2 * amount > 0) returns true both times
\* and moves the amount twice.
C6_Replayable ==
    ReplayDone =>
        /\ last.first.result = "True"
        /\ last.result = "True"
        /\ accounts[Sender].balance
             = last.first.before[Sender].balance - 2 * Amount
        /\ accounts[Receiver].balance
             = last.first.before[Receiver].balance + 2 * Amount

C6_Witness ==
    /\ ReplayDone
    /\ last.result = "True"
    /\ last.first.before[Sender].balance = 2 * Amount
    /\ accounts[Sender].balance = 0

(***************************************************************************)
(* C7                                                                      *)
(***************************************************************************)
Missing(p) == ~Resolves(start, p)

FirstMissing ==
    IF \E k \in 1 .. Len(payments) : Missing(payments[k])
    THEN CHOOSE k \in 1 .. Len(payments) :
            /\ Missing(payments[k])
            /\ \A j \in 1 .. (k - 1) : ~Missing(payments[j])
    ELSE Len(payments) + 1

\* C7: a payment naming an identifier absent from the mapping makes process
\* raise a lookup fault before any credential check or transfer, with no
\* balance changed; the fault ends the driver's loop, so no later payment of
\* the batch is processed.
C7_LookupFault ==
    /\ (last.op = "process" /\ ~Resolves(Before, last.p)) =>
          /\ last.result = "KeyError"
          /\ last.invoked = <<>>
          /\ last.out = <<>>
          /\ accounts = Before
    /\ idx <= FirstMissing
    /\ idx = FirstMissing => pc = "crashed" /\ Len(outcomes) = idx - 1
    /\ pc = "crashed" => ~ENABLED DriverNext

C7_Witness ==
    /\ pc = "crashed"
    /\ idx < Len(payments)
    /\ last.p.from_account_id \in DOMAIN start
    /\ ~CredentialMatches(start, last.p)
    /\ last.result = "KeyError"

(***************************************************************************)
(* C8                                                                      *)
(***************************************************************************)
AllResolve == \A k \in 1 .. Len(payments) : Resolves(start, payments[k])

\* the mapping the specification expects after the first k payments
RECURSIVE Expected(_)
Expected(k) ==
    IF k = 0 THEN start
    ELSE LET prev == Expected(k - 1)
             p == payments[k]
         IN  IF CredentialMatches(prev, p) /\ Funded(prev, p)
             THEN Settled(prev, p) ELSE prev

ExpectedOutcome(k) ==
    [payment |-> payments[k],
     result |-> IF CredentialMatches(Expected(k - 1), payments[k])
                   /\ Funded(Expected(k - 1), payments[k])
                THEN "True" ELSE "False"]

C8_Batch ==
    /\ AllResolve =>
          /\ pc # "crashed"
          /\ Len(outcomes) = idx
          /\ \A k \in 1 .. idx : outcomes[k] = ExpectedOutcome(k)
          /\ accounts = Expected(idx)
          /\ pc = "done" => idx = Len(payments)
    /\ (start = MainAccounts /\ payments = MainPayments /\ pc = "done") =>
          /\ [k \in 1 .. 3 |-> outcomes[k].result] = <<"True", "False", "False">>
          /\ accounts["A001"].balance = 800
          /\ accounts["A002"].balance = 700

\* C8: a batch whose identifiers all exist is processed payment by payment in
\* list order, each exactly once and each on the balances the earlier ones
\* left, whatever their outcomes, and the driver reaches completion; the
\* driver's own batch ends true, false, false with A001 = 800, A002 = 700.
C8_BatchCompletes ==
    /\ []C8_Batch
    /\ [](AllResolve => <>(pc = "done"))

C8_Witness ==
    /\ pc = "done"
    /\ start = MainAccounts
    /\ payments = MainPayments
    /\ accounts["A001"].balance = 800

(***************************************************************************)
(* C9                                                                      *)
(***************************************************************************)
ResolvedProcessDone == last.op = "process" /\ Resolves(Before, last.p)

\* C9: with both identifiers present, process returns true exactly when the
\* credential verifies and 0 < amount <= sender.balance; when the credential
\* verifies and the transfer is rejected it returns false, prints 'transfer
\* failed' (after 'Insufficient funds' only when the amount is positive and
\* exceeds the balance) and changes no balance.
C9_ProcessResult ==
    ResolvedProcessDone =>
        /\ last.result \in {"True", "False"}
        /\ last.result = "True" <=>
              (CredentialMatches(Before, last.p) /\ Funded(Before, last.p))
        /\ (CredentialMatches(Before, last.p) /\ ~Funded(Before, last.p)) =>
              /\ last.result = "False"
              /\ last.out =
                    IF Amount > 0
                    THEN <<"Insufficient funds", "Error: transfer failed">>
                    ELSE <<"Error: transfer failed">>
              /\ accounts = Before

C9_Witness ==
    /\ ResolvedProcessDone
    /\ CredentialMatches(Before, last.p)
    /\ Amount > Before[Sender].balance
    /\ Before[Sender].balance > 0
    /\ last.out = <<"Insufficient funds", "Error: transfer failed">>

(***************************************************************************)
(* C10                                                                     *)
(***************************************************************************)
\* C10: a process call (successful, rejected or faulting, a replay or a
\* payment of an account to itself) keeps the sum of all balances, changes
\* the balance of no account but its sender and receiver, and changes no
\* identifier, stored card number or stored email; two calls in a row keep
\* the sum as well.
C10_Conservation ==
    /\ SameIdentity(accounts, Before)
    /\ last.op = "process" =>
          /\ Total(accounts) = Total(Before)
          /\ \A i \in DOMAIN accounts :
                i \notin {Sender, Receiver} => accounts[i] = Before[i]
          /\ last.first.done =>
                /\ Total(accounts) = Total(last.first.before)
                /\ SameIdentity(accounts, last.first.before)

C10_Witness ==
    /\ last.op = "process"
    /\ last.first.done
    /\ Sender = Receiver
    /\ last.result = "True"
    /\ last.first.result = "True"

====
